---- MODULE Spec2Model ----
(***************************************************************************)
(* Model of the dataset-generation scripts of legal-dataset-repository:    *)
(*   utils.py                   split_text_into_chunks, read_text_file     *)
(*   generate_qa_dataset.py     generate_qa_from_text, main                *)
(*   generate_classifications.py, scripts/generate_summaries.py  (main)    *)
(*   evaluate_dataset.py        evaluate_jsonl_dataset                     *)
(*                                                                         *)
(* Three specifications share the variables:                               *)
(*   ChunkSpec / FairChunkSpec  one call of split_text_into_chunks         *)
(*   GenSpec                    one run of a generation script's main()    *)
(*   EvalSpec                   one call of evaluate_jsonl_dataset         *)
(***************************************************************************)
EXTENDS Integers, Sequences, FiniteSets, TLC

\* ---------------------------------------------------------------- bounds
MaxLen == 4          \* longest text handed to the chunker
MaxSize == 4         \* largest max_chunk_size handed to the chunker
MaxIter == MaxLen + 2  \* cap on loop iterations when the loop cannot end
MaxGenChunks == 2    \* most chunks of a source text in a generation run
MaxRecs == 2         \* most records in one response of the capability
MaxLines == 3        \* most lines of an evaluated dataset file

Alphabet == {"a", "b"}

Min(a, b) == IF a < b THEN a ELSE b
Max(a, b) == IF a > b THEN a ELSE b

\* Python's None for a str | None value; no text contains this element.
None == <<"None">>

VARIABLES
    \* split_text_into_chunks
    text, max_chunk_size, overlap, start_index, chunks, spans, cpc,
    \* a generation script's main(): its environment ...
    task, api_key, input_state, input_text, out_dir, out_exists, out_file,
    \* ... its locals and position ...
    source_text, text_chunks, chunk_idx, qa_pairs, pair_idx, total, gpc,
    \* ... and the log of what it did
    split_calls, invoked, called, in_flight, responses,
    \* evaluate_jsonl_dataset
    file_exists, lines, line_idx, total_lines, invalid_json_count,
    missing_key_count, empty_value_count, expected_keys, verdict, epc

cvars == <<text, max_chunk_size, overlap, start_index, chunks, spans, cpc>>

genv == <<task, api_key, input_state, input_text, out_dir, out_exists, out_file>>

locv == <<source_text, text_chunks, chunk_idx, qa_pairs, pair_idx, total, gpc>>

logv == <<split_calls, invoked, called, in_flight, responses>>

gvars == <<genv, locv, logv>>

evars == <<file_exists, lines, line_idx, total_lines, invalid_json_count,
           missing_key_count, empty_value_count, expected_keys, verdict, epc>>

vars == <<cvars, gvars, evars>>

\* ------------------------------------------------- utils.py: the chunker

\* text[i:j] of Python: negative indices count from the end, both bounds
\* are clamped to 0..len.  PyBounds gives the effective offsets [lo, hi).
PyIndex(len, i) == IF i < 0 THEN Max(i + len, 0) ELSE Min(i, len)

PyBounds(len, i, j) ==
    LET lo == PyIndex(len, i)
        hi == PyIndex(len, j)
    IN  <<lo, Max(lo, hi)>>

PySlice(s, i, j) ==
    LET b == PyBounds(Len(s), i, j)
    IN  IF b[1] >= b[2] THEN <<>> ELSE SubSeq(s, b[1] + 1, b[2])

\* utils.py:28  "not isinstance(text, str) or not text"
EmptyOrNotStr(t) == t = None \/ t = <<>>

\* mutant: the window ends one character early
EndIndexShort(start, m) == start + m - 1

\* utils.py:36  end_index = start_index + max_chunk_size
EndIndex(start, m) == start + m

\* mutants: '=' for '+=', and the overlap forgotten
NextStartAssign(start, m, o) == m - o

NextStartNoOverlap(start, m, o) == start + m

\* utils.py:39  start_index += max_chunk_size - overlap
NextStart(start, m, o) == start + (m - o)

\* mutant: '<=' for '<'
LoopCondInclusive(start, t) == start <= Len(t)

\* utils.py:35  while start_index < len(text)
LoopCond(start, t) == start < Len(t)

Texts == UNION {[1..n -> Alphabet] : n \in 0..MaxLen}

ChunkStart ==
    /\ text \in Texts
    /\ max_chunk_size \in 1..MaxSize
    /\ overlap \in 0..(MaxSize + 1)
    /\ start_index = 0
    /\ chunks = <<>>
    /\ spans = <<>>
    /\ cpc = "entry"

\* utils.py:28-33: the guard on the input and the loop's initialisation
SplitEntry ==
    /\ cpc = "entry"
    /\ IF EmptyOrNotStr(text)
         THEN cpc' = "done"
         ELSE cpc' = "loop"
    /\ chunks' = <<>>
    /\ start_index' = 0
    /\ UNCHANGED <<text, max_chunk_size, overlap, spans>>
    /\ UNCHANGED <<gvars, evars>>

\* utils.py:35-39: one iteration of the while loop
LoopIter ==
    /\ cpc = "loop"
    /\ LoopCond(start_index, text)
    /\ Len(chunks) < MaxIter
    /\ LET end_index == EndIndex(start_index, max_chunk_size)
       IN  /\ chunks' = Append(chunks, PySlice(text, start_index, end_index))
           /\ spans' = Append(spans, PyBounds(Len(text), start_index, end_index))
    /\ start_index' = NextStart(start_index, max_chunk_size, overlap)
    /\ UNCHANGED <<text, max_chunk_size, overlap, cpc>>
    /\ UNCHANGED <<gvars, evars>>

\* utils.py:35,41-42: the loop condition fails, the chunks are returned
LoopExit ==
    /\ cpc = "loop"
    /\ ~LoopCond(start_index, text)
    /\ cpc' = "done"
    /\ UNCHANGED <<text, max_chunk_size, overlap, start_index, chunks, spans>>
    /\ UNCHANGED <<gvars, evars>>

\* the chunker before any call: used by the other specifications
ChunkIdle ==
    /\ text = <<>>
    /\ max_chunk_size = 1
    /\ overlap = 0
    /\ start_index = 0
    /\ chunks = <<>>
    /\ spans = <<>>
    /\ cpc = "entry"

ChunkNext == SplitEntry \/ LoopIter \/ LoopExit

\* the whole call as main() makes it: the loop above run to its end
RECURSIVE SplitLoop(_, _, _, _, _)
SplitLoop(t, m, o, start, acc) ==
    IF LoopCond(start, t)
      THEN SplitLoop(t, m, o, NextStart(start, m, o),
                     Append(acc, PySlice(t, start, EndIndex(start, m))))
      ELSE acc

split_text_into_chunks(t, m, o) ==
    IF EmptyOrNotStr(t) THEN <<>> ELSE SplitLoop(t, m, o, 0, <<>>)

\* utils.py:44-68: the content, or None for a missing or unreadable file
read_text_file(state, content) ==
    IF state = "ok" THEN content ELSE None

\* --------------------------- generate_*.py: main() of a generation script

Tasks == {"QA", "CLASSIFICATION", "SUMMARY"}

\* the chunk sizes each main() passes to split_text_into_chunks
QaChunkSize == 4000
QaOverlap == 200
ClsChunkSize == 500
ClsOverlap == 50
SumChunkSize == 8000
SumOverlap == 400

ChunkSizeOf(t) ==
    CASE t = "QA" -> QaChunkSize
      [] t = "CLASSIFICATION" -> ClsChunkSize
      [] OTHER -> SumChunkSize

OverlapOf(t) ==
    CASE t = "QA" -> QaOverlap
      [] t = "CLASSIFICATION" -> ClsOverlap
      [] OTHER -> SumOverlap

\* A value json.loads can return: an array or an object of n members, a
\* non-zero number, or null.
JsonValues ==
    {[kind |-> k, n |-> c] : k \in {"array", "object"}, c \in 0..MaxRecs}
      \cup {[kind |-> "number", n |-> 0], [kind |-> "null", n |-> 0]}

\* What one call of the capability can do: raise (transport error), answer
\* with text json.loads rejects, or answer with text it parses.
Outcomes ==
    {[status |-> st, value |-> [kind |-> "null", n |-> 0]] :
        st \in {"transport_error", "unparseable"}}
      \cup {[status |-> "parsed", value |-> v] : v \in JsonValues}

\* generate_qa_from_text returns [] on failure, the other two return None
FailureValue(t) ==
    IF t = "QA" THEN [kind |-> "array", n |-> 0] ELSE [kind |-> "null", n |-> 0]

\* the try/except around the call: json.loads(response.text), or the
\* failure value when anything raised
GenResult(t, o) ==
    IF o.status = "parsed" THEN o.value ELSE FailureValue(t)

\* Python truth of a returned value ("if qa_pairs:")
Truthy(v) ==
    CASE v.kind \in {"array", "object"} -> v.n > 0
      [] v.kind = "number" -> TRUE
      [] OTHER -> FALSE

\* "for pair in qa_pairs" raises TypeError unless the value is iterable
Iterable(v) == v.kind \in {"array", "object"}

\* mutant: only the empty string is caught
NotSourceTextEmptyOnly(s) == s = <<>>

\* "if not source_text"
NotSourceText(s) == s = None \/ s = <<>>

\* number of lines main() writes for a returned value
LinesFor(t, v) ==
    IF ~Truthy(v) THEN 0
    ELSE IF t = "QA" THEN (IF Iterable(v) THEN v.n ELSE 0)
    ELSE 1

\* the j-th record of the response to chunk i, as a line of the output
Line(i, j) == [chunk |-> i, pos |-> j]

\* a line of a dataset left by an earlier run
OldLine == Line(0, 0)

\* mutant: mode 'a' keeps the old content
OpenForAppend(content) == content

\* open(path, 'w') truncates
OpenForWrite(content) == <<>>

\* f.write(json.dumps(record) + '\n')
WriteLine(content, line) == Append(content, line)

Fill(n) == [i \in 1..n |-> "a"]

\* source texts of 0 .. MaxGenChunks chunks for task t
GenTexts(t) ==
    {Fill(0)} \cup
    {Fill(k * (ChunkSizeOf(t) - OverlapOf(t)) + 1) : k \in 0..(MaxGenChunks - 1)}

OutputStates ==
    { <<"none", FALSE, <<>> >>, <<"none", TRUE, <<OldLine>> >>,
      <<"absent", FALSE, <<>> >>,
      <<"present", FALSE, <<>> >>, <<"present", TRUE, <<OldLine>> >> }

GenLocalsInit ==
    /\ source_text = <<>>
    /\ text_chunks = <<>>
    /\ chunk_idx = 0
    /\ qa_pairs = [kind |-> "null", n |-> 0]
    /\ pair_idx = 0
    /\ total = 0
    /\ split_calls = 0
    /\ invoked = <<>>
    /\ called = <<>>
    /\ in_flight = 0
    /\ responses = <<>>

GenStart ==
    /\ task \in Tasks
    /\ api_key \in BOOLEAN
    /\ input_state \in {"missing", "unreadable", "ok"}
    /\ input_text \in (IF input_state = "ok" THEN GenTexts(task) ELSE {<<>>})
    /\ \E os \in OutputStates :
          out_dir = os[1] /\ out_exists = os[2] /\ out_file = os[3]
    /\ GenLocalsInit
    /\ gpc = "start"

\* no generation run: used by the other specifications
GenIdle ==
    /\ task = "QA"
    /\ api_key = FALSE
    /\ input_state = "missing"
    /\ input_text = <<>>
    /\ out_dir = "none"
    /\ out_exists = FALSE
    /\ out_file = <<>>
    /\ GenLocalsInit
    /\ gpc = "idle"

\* generate_qa_dataset.py:129-132: read the source, return when there is none
MainRead ==
    /\ gpc = "start"
    /\ source_text' = read_text_file(input_state, input_text)
    /\ gpc' = IF NotSourceText(source_text') THEN "aborted" ELSE "split"
    /\ UNCHANGED <<genv, text_chunks, chunk_idx, qa_pairs, pair_idx, total, logv>>
    /\ UNCHANGED <<cvars, evars>>

\* generate_qa_dataset.py:135-138: chunk the source, return when no chunks
MainSplit ==
    /\ gpc = "split"
    /\ split_calls' = split_calls + 1
    /\ text_chunks' = split_text_into_chunks(source_text, ChunkSizeOf(task),
                                             OverlapOf(task))
    /\ gpc' = IF text_chunks' = <<>> THEN "aborted" ELSE "makedirs"
    /\ UNCHANGED <<genv, source_text, chunk_idx, qa_pairs, pair_idx, total>>
    /\ UNCHANGED <<invoked, called, in_flight, responses>>
    /\ UNCHANGED <<cvars, evars>>

\* generate_qa_dataset.py:141: os.makedirs(os.path.dirname(output_file));
\* it raises FileNotFoundError when the path has no directory part
MainMakedirs ==
    /\ gpc = "makedirs"
    /\ IF out_dir = "none"
         THEN gpc' = "raised_makedirs" /\ UNCHANGED out_dir
         ELSE gpc' = "open" /\ out_dir' = "present"
    /\ UNCHANGED <<task, api_key, input_state, input_text, out_exists, out_file>>
    /\ UNCHANGED <<source_text, text_chunks, chunk_idx, qa_pairs, pair_idx, total>>
    /\ UNCHANGED logv
    /\ UNCHANGED <<cvars, evars>>

\* generate_qa_dataset.py:146-148: open the output for writing, enter the for
MainOpen ==
    /\ gpc = "open"
    /\ out_exists' = TRUE
    /\ out_file' = OpenForWrite(out_file)
    /\ chunk_idx' = 1
    /\ gpc' = "invoke"
    /\ UNCHANGED <<task, api_key, input_state, input_text, out_dir>>
    /\ UNCHANGED <<source_text, text_chunks, qa_pairs, pair_idx, total>>
    /\ UNCHANGED logv
    /\ UNCHANGED <<cvars, evars>>

\* generate_qa_dataset.py:150,53-56,105: generate_*_from_text is entered for
\* the chunk; without the key it returns at once, else the request goes out
GenInvoke ==
    /\ gpc = "invoke"
    /\ invoked' = Append(invoked, chunk_idx)
    /\ pair_idx' = 0
    /\ IF ~api_key
         THEN /\ qa_pairs' = FailureValue(task)
              /\ responses' = Append(responses,
                     [status |-> "no_key", value |-> FailureValue(task)])
              /\ gpc' = "write"
              /\ UNCHANGED <<called, in_flight>>
         ELSE /\ called' = Append(called, chunk_idx)
              /\ in_flight' = in_flight + 1
              /\ gpc' = "await"
              /\ UNCHANGED <<qa_pairs, responses>>
    /\ UNCHANGED <<genv, source_text, text_chunks, chunk_idx, total, split_calls>>
    /\ UNCHANGED <<cvars, evars>>

\* generate_qa_dataset.py:101-112: the awaited call ends, one way or another
GenReturn ==
    /\ gpc = "await"
    /\ \E o \in Outcomes :
          /\ responses' = Append(responses, o)
          /\ qa_pairs' = GenResult(task, o)
    /\ in_flight' = in_flight - 1
    /\ gpc' = "write"
    /\ UNCHANGED <<genv, source_text, text_chunks, chunk_idx, pair_idx, total>>
    /\ UNCHANGED <<split_calls, invoked, called>>
    /\ UNCHANGED <<cvars, evars>>

\* generate_qa_dataset.py:151-154: one f.write of the current chunk's result
WriteRecord ==
    /\ gpc = "write"
    /\ pair_idx < LinesFor(task, qa_pairs)
    /\ out_file' = WriteLine(out_file, Line(chunk_idx, pair_idx + 1))
    /\ pair_idx' = pair_idx + 1
    /\ UNCHANGED <<task, api_key, input_state, input_text, out_dir, out_exists>>
    /\ UNCHANGED <<source_text, text_chunks, chunk_idx, qa_pairs, total, gpc>>
    /\ UNCHANGED logv
    /\ UNCHANGED <<cvars, evars>>

\* generate_qa_dataset.py:152: iterating a truthy value that is no
\* collection raises TypeError, which nothing catches
WriteRaise ==
    /\ gpc = "write"
    /\ task = "QA"
    /\ Truthy(qa_pairs) /\ ~Iterable(qa_pairs)
    /\ gpc' = "raised_write"
    /\ UNCHANGED <<genv, source_text, text_chunks, chunk_idx, qa_pairs, pair_idx, total>>
    /\ UNCHANGED logv
    /\ UNCHANGED <<cvars, evars>>

\* generate_qa_dataset.py:148,155: the chunk's result is written, the for
\* loop takes the next chunk or ends
ChunkDone ==
    /\ gpc = "write"
    /\ ~(task = "QA" /\ Truthy(qa_pairs) /\ ~Iterable(qa_pairs))
    /\ pair_idx = LinesFor(task, qa_pairs)
    /\ total' = total + LinesFor(task, qa_pairs)
    /\ IF chunk_idx < Len(text_chunks)
         THEN chunk_idx' = chunk_idx + 1 /\ gpc' = "invoke"
         ELSE chunk_idx' = chunk_idx /\ gpc' = "close"
    /\ UNCHANGED <<genv, source_text, text_chunks, qa_pairs, pair_idx>>
    /\ UNCHANGED logv
    /\ UNCHANGED <<cvars, evars>>

\* generate_qa_dataset.py:146,157-159: the with block closes the file, the
\* summary is logged
MainFinish ==
    /\ gpc = "close"
    /\ gpc' = "done"
    /\ UNCHANGED <<genv, source_text, text_chunks, chunk_idx, qa_pairs, pair_idx, total>>
    /\ UNCHANGED logv
    /\ UNCHANGED <<cvars, evars>>

GenNext ==
    \/ MainRead \/ MainSplit \/ MainMakedirs \/ MainOpen
    \/ GenInvoke \/ GenReturn \/ WriteRecord \/ WriteRaise \/ ChunkDone
    \/ MainFinish

\* ------------------------------ evaluate_dataset.py: the dataset validator

Keys == {"a", "b"}

\* JSON values of a field: "x", "", 0, false, null, {}
Values == {"str", "empty_str", "zero", "false", "null", "empty_map"}

\* A line of the file.  kind: "garbage" (text that is no JSON), "blank",
\* "number" and "array" (JSON, but no object), "object".  The members of an
\* object are <<key, value>> pairs.
NonObjectLines ==
    {[kind |-> k, obj |-> {}] : k \in {"garbage", "blank", "number", "array"}}

Objects ==
    {{}} \cup {{<<"a", v>>} : v \in Values}
         \cup {{<<"a", v>>, <<"b", w>>} : v \in {"str", "empty_str"}, w \in Values}

ObjectLines == {[kind |-> "object", obj |-> o] : o \in Objects}

LineUniverse == NonObjectLines \cup ObjectLines

Files == UNION {[1..n -> LineUniverse] : n \in 0..MaxLines}

\* expected_keys = None; no key set of a line equals it
NoKeys == {"<None>"}

\* evaluate_dataset.py:49: json.loads(line) raises JSONDecodeError
ParseFails(line) == line.kind \in {"garbage", "blank"}

\* evaluate_dataset.py:51,55: data.keys() exists only for a dict
HasKeys(line) == line.kind = "object"

\* set(data.keys())
KeySet(line) == {p[1] : p \in line.obj}

\* mutants: the "is None" test left out, and the capture left out
ExpectLatest(ek, line) == KeySet(line)

ExpectNever(ek, line) == ek

\* evaluate_dataset.py:50-51: the first parsed line sets expected_keys
Expect(ek, line) == IF ek = NoKeys THEN KeySet(line) ELSE ek

\* evaluate_dataset.py:62: "not value and value != 0"
\* "not value": Python truth of a JSON value
Falsy(v) == v \in {"empty_str", "zero", "false", "null", "empty_map"}

\* "value == 0": true of 0 and, in Python, of False
EqualsZero(v) == v \in {"zero", "false"}

\* mutant: "and value != 0" left out
IsEmptyValueFalsy(v) == Falsy(v)

IsEmptyValue(v) == Falsy(v) /\ ~EqualsZero(v)

\* evaluate_dataset.py:61-63: the count added for one line
EmptyValues(line) == Cardinality({p \in line.obj : IsEmptyValue(p[2])})

\* evaluate_dataset.py:76: the verdict of the summary
Passed(inv, mis, emp) == inv = 0 /\ mis = 0 /\ emp = 0

EvalLocalsInit ==
    /\ line_idx = 0
    /\ total_lines = 0
    /\ invalid_json_count = 0
    /\ missing_key_count = 0
    /\ empty_value_count = 0
    /\ expected_keys = NoKeys
    /\ verdict = "none"

EvalStart ==
    /\ file_exists \in BOOLEAN
    /\ lines \in (IF file_exists THEN Files ELSE {<<>>})
    /\ EvalLocalsInit
    /\ epc = "start"

\* no evaluation: used by the other specifications
EvalIdle ==
    /\ file_exists = FALSE
    /\ lines = <<>>
    /\ EvalLocalsInit
    /\ epc = "idle"

\* evaluate_dataset.py:27-44: read the lines; return when the file is
\* missing or empty; else initialise the counters
EvalOpen ==
    /\ epc = "start"
    /\ epc' = IF ~file_exists THEN "not_found"
              ELSE IF lines = <<>> THEN "empty"
              ELSE "loop"
    /\ total_lines' = IF file_exists THEN Len(lines) ELSE total_lines
    /\ UNCHANGED <<file_exists, lines, line_idx, invalid_json_count,
                   missing_key_count, empty_value_count, expected_keys, verdict>>
    /\ UNCHANGED <<cvars, gvars>>

\* evaluate_dataset.py:48-49,66-68: the line is no JSON
EvalInvalidJson ==
    /\ epc = "loop"
    /\ line_idx < Len(lines)
    /\ ParseFails(lines[line_idx + 1])
    /\ invalid_json_count' = invalid_json_count + 1
    /\ line_idx' = line_idx + 1
    /\ UNCHANGED <<file_exists, lines, total_lines, missing_key_count,
                   empty_value_count, expected_keys, verdict, epc>>
    /\ UNCHANGED <<cvars, gvars>>

\* evaluate_dataset.py:49-51,55: the line is JSON but no object; data.keys()
\* raises AttributeError, which "except json.JSONDecodeError" does not catch
EvalNotObject ==
    /\ epc = "loop"
    /\ line_idx < Len(lines)
    /\ ~ParseFails(lines[line_idx + 1])
    /\ ~HasKeys(lines[line_idx + 1])
    /\ epc' = "raised"
    /\ UNCHANGED <<file_exists, lines, line_idx, total_lines, invalid_json_count,
                   missing_key_count, empty_value_count, expected_keys, verdict>>
    /\ UNCHANGED <<cvars, gvars>>

\* evaluate_dataset.py:49-58: an object whose keys differ from expected_keys
EvalKeyMismatch ==
    /\ epc = "loop"
    /\ line_idx < Len(lines)
    /\ LET line == lines[line_idx + 1]
       IN  /\ ~ParseFails(line)
           /\ HasKeys(line)
           /\ expected_keys' = Expect(expected_keys, line)
           /\ KeySet(line) # expected_keys'
    /\ missing_key_count' = missing_key_count + 1
    /\ line_idx' = line_idx + 1
    /\ UNCHANGED <<file_exists, lines, total_lines, invalid_json_count,
                   empty_value_count, verdict, epc>>
    /\ UNCHANGED <<cvars, gvars>>

\* evaluate_dataset.py:49-55,61-64: an object with the expected keys: its
\* values are checked
EvalCheckValues ==
    /\ epc = "loop"
    /\ line_idx < Len(lines)
    /\ LET line == lines[line_idx + 1]
       IN  /\ ~ParseFails(line)
           /\ HasKeys(line)
           /\ expected_keys' = Expect(expected_keys, line)
           /\ KeySet(line) = expected_keys'
           /\ empty_value_count' = empty_value_count + EmptyValues(line)
    /\ line_idx' = line_idx + 1
    /\ UNCHANGED <<file_exists, lines, total_lines, invalid_json_count,
                   missing_key_count, verdict, epc>>
    /\ UNCHANGED <<cvars, gvars>>

\* evaluate_dataset.py:70-79: after the last line, the summary and verdict
EvalSummary ==
    /\ epc = "loop"
    /\ line_idx = Len(lines)
    /\ verdict' = IF Passed(invalid_json_count, missing_key_count, empty_value_count)
                    THEN "passed" ELSE "issues"
    /\ epc' = "done"
    /\ UNCHANGED <<file_exists, lines, line_idx, total_lines, invalid_json_count,
                   missing_key_count, empty_value_count, expected_keys>>
    /\ UNCHANGED <<cvars, gvars>>

EvalNext ==
    \/ EvalOpen \/ EvalInvalidJson \/ EvalNotObject \/ EvalKeyMismatch
    \/ EvalCheckValues \/ EvalSummary

\* -------------------------------------------------------- specifications

EvalInit == ChunkIdle /\ GenIdle /\ EvalStart

EvalSpec == EvalInit /\ [][EvalNext]_vars

ChunkInit == ChunkStart /\ GenIdle /\ EvalIdle

ChunkSpec == ChunkInit /\ [][ChunkNext]_vars

FairChunkSpec ==
    ChunkSpec /\ WF_vars(SplitEntry) /\ WF_vars(LoopIter) /\ WF_vars(LoopExit)

GenInit == ChunkIdle /\ GenStart /\ EvalIdle

GenSpec == GenInit /\ [][GenNext]_vars

\* ------------------------------------------------ claims on the chunker

ValidConfig == 0 <= overlap /\ overlap < max_chunk_size

Returned == cpc = "done" /\ text # <<>>

\* number of offsets shared by the k-th and the (k+1)-th slice
Shared(k) ==
    Max(0, Min(spans[k][2], spans[k + 1][2]) - Max(spans[k][1], spans[k + 1][1]))

\* C1: a non-empty text with overlap >= max_chunk_size fails fast: the call
\* never enters the windowing loop, where the start could not advance.
C1_OverlapTooLargeFailsFast ==
    (text # <<>> /\ overlap >= max_chunk_size) => cpc # "loop"

\* C2: with 0 <= overlap < max_chunk_size the loop terminates: every
\* iteration strictly increases start_index, and the loop is eventually
\* left with start_index >= len(text).
C2_LoopTerminates ==
    /\ [][(ValidConfig /\ cpc = "loop" /\ cpc' = "loop")
            => start_index' > start_index]_vars
    /\ (ValidConfig /\ cpc = "loop")
         ~> (cpc = "done" /\ start_index >= Len(text))

C2_Witness ==
    /\ ValidConfig /\ Returned
    /\ Len(chunks) >= 3
    /\ start_index >= Len(text)

\* C3 as stated: every consecutive pair whose second chunk is not the final
\* chunk shares exactly overlap characters of the text.
C3_NonFinalPairsShareOverlap ==
    (ValidConfig /\ Returned) =>
        \A k \in 1..(Len(chunks) - 1) :
            (k + 1 < Len(chunks)) => Shared(k) = overlap

\* C3 amended: every consecutive pair shares exactly
\* min(overlap, length of the second chunk) characters, so exactly overlap
\* whenever the second chunk has at least overlap characters.
C3_PairsShareMinOverlapLen ==
    ValidConfig =>
        \A k \in 1..(Len(chunks) - 1) :
            /\ Shared(k) = Min(overlap, Len(chunks[k + 1]))
            /\ (Len(chunks[k + 1]) >= overlap => Shared(k) = overlap)

C3_Witness ==
    /\ ValidConfig /\ Returned
    /\ \E k \in 1..(Len(chunks) - 1) :
          k + 1 < Len(chunks) /\ Len(chunks[k + 1]) < overlap
    /\ \E k \in 1..(Len(chunks) - 1) :
          overlap > 0 /\ Shared(k) = overlap

\* C4: the k-th chunk (k = 0, 1, ...) is text[k*(m-o) : min(k*(m-o)+m, len)]
\* for exactly the k with k*(m-o) < len; every chunk has 1..m characters,
\* starts do not decrease, each start is <= the previous end, and the last
\* chunk ends at len(text).
C4_ChunksAreWindows ==
    (ValidConfig /\ Returned) =>
        LET step == max_chunk_size - overlap
            len == Len(text)
            n == (len + step - 1) \div step
            lo(k) == k * step
            hi(k) == Min(k * step + max_chunk_size, len)
        IN  /\ Len(chunks) = n
            /\ \A k \in 0..(n - 1) :
                  /\ lo(k) < len
                  /\ chunks[k + 1] = SubSeq(text, lo(k) + 1, hi(k))
                  /\ spans[k + 1] = <<lo(k), hi(k)>>
                  /\ Len(chunks[k + 1]) \in 1..max_chunk_size
            /\ \A k \in 1..(n - 1) :
                  /\ spans[k][1] <= spans[k + 1][1]
                  /\ spans[k + 1][1] <= spans[k][2]
            /\ spans[n][2] = len

C4_Witness ==
    /\ ValidConfig /\ Returned
    /\ overlap > 0
    /\ Len(chunks) >= 3
    /\ Len(chunks[Len(chunks)]) < max_chunk_size

\* The text rebuilt from the chunks: the first chunk, then every later chunk
\* without its first o characters (nothing of a chunk shorter than o).
RECURSIVE Reassemble(_, _)
Reassemble(cs, o) ==
    IF Len(cs) <= 1
      THEN (IF cs = <<>> THEN <<>> ELSE cs[1])
      ELSE LET last == cs[Len(cs)]
               rest == IF Len(last) <= o THEN <<>>
                       ELSE SubSeq(last, o + 1, Len(last))
           IN  Reassemble(SubSeq(cs, 1, Len(cs) - 1), o) \o rest

\* C5: round trip: the chunks with the overlap removed rebuild the text.
C5_RoundTrip ==
    (ValidConfig /\ Returned) => Reassemble(chunks, overlap) = text

C5_Witness ==
    /\ ValidConfig /\ Returned
    /\ 2 * overlap > max_chunk_size
    /\ Len(chunks) >= 3
    /\ Len(chunks[Len(chunks)]) < overlap
    /\ \E i, j \in 1..Len(text) : text[i] # text[j]

\* ------------------------------------------ claims on the generation run

\* the run has opened the output file
Opened == gpc \in {"invoke", "await", "write", "raised_write", "close", "done"}

\* C6: without the credential the run aborts before any chunk is processed
\* and before any output I/O: no step of it enters a generate_*_from_text,
\* creates the output file or changes its content.
C6_NoKeyNoWork ==
    [][~api_key =>
          /\ invoked' = invoked
          /\ out_exists' = out_exists
          /\ out_file' = out_file]_vars

\* C7: when read_text_file returns None (source missing or unreadable) the
\* run aborts at once: its first step ends it, no chunking or generation
\* call happens, the output directory is not created and the output file is
\* neither created nor modified.
C7_MissingSourceAborts ==
    [][input_state # "ok" =>
          /\ gpc' = "aborted"
          /\ UNCHANGED <<out_dir, out_exists, out_file>>
          /\ UNCHANGED <<split_calls, text_chunks, invoked, called>>]_vars

C7_Witness ==
    /\ input_state = "missing"
    /\ gpc = "aborted"
    /\ out_exists /\ out_file = <<OldLine>>
    /\ split_calls = 0 /\ invoked = <<>>

\* the response has the shape the task's schema asks for
Conforms(t, v) ==
    IF t = "QA" THEN v.kind = "array" ELSE (v.kind = "object" /\ v.n > 0)

\* a failed call: transport error, or a malformed response
FailedCall(t, o) == o.status # "parsed" \/ ~Conforms(t, o.value)

\* C8: with the credential, every chunk gets exactly one call of the
\* capability whatever calls fail; a failed call adds no record to the
\* output, is not retried and does not stop the later calls; the run
\* completes normally after the last chunk.
C8_OneAttemptPerChunk ==
    (api_key /\ Opened) =>
        /\ gpc # "raised_write"
        /\ \A p, q \in 1..Len(called) : p # q => called[p] # called[q]
        /\ gpc \in {"close", "done"} =>
              called = [i \in 1..Len(text_chunks) |-> i]
        /\ \A k \in 1..Len(out_file) :
              ~FailedCall(task, responses[out_file[k].chunk])

\* the lines main() has written for chunk i so far
Written(i) ==
    LET cnt == IF i = chunk_idx THEN pair_idx
               ELSE LinesFor(task, GenResult(task, responses[i]))
    IN  [j \in 1..cnt |-> Line(i, j)]

RECURSIVE WrittenUpTo(_)
WrittenUpTo(i) == IF i = 0 THEN <<>> ELSE WrittenUpTo(i - 1) \o Written(i)

\* C9: at every point after the output is opened its lines are the records
\* of the chunks processed so far, chunk by chunk, each chunk's records in
\* the order returned; no record of a later chunk precedes one of an
\* earlier chunk; at most one generation call is in flight.
C9_OutputInChunkOrder ==
    /\ in_flight \in {0, 1}
    /\ in_flight = 1 <=> gpc = "await"
    /\ Opened =>
        /\ out_file = WrittenUpTo(Len(responses))
        /\ \A p, q \in 1..Len(out_file) :
              p < q =>
                \/ out_file[p].chunk < out_file[q].chunk
                \/ /\ out_file[p].chunk = out_file[q].chunk
                   /\ out_file[p].pos < out_file[q].pos

C9_Witness ==
    /\ task = "QA" /\ gpc = "done"
    /\ Len(text_chunks) >= 2
    /\ Len(out_file) >= 3
    /\ out_file[1].chunk = 1
    /\ out_file[Len(out_file)] = Line(2, 2)

\* ------------------------------------------------ claims on the validator

\* C10: validation never halts early: for a non-empty file, whatever its
\* lines are, every line is examined, every line that fails to parse adds
\* exactly one to invalid_json, and the summary is reached.
C10_NeverHaltsEarly ==
    (file_exists /\ lines # <<>>) =>
        /\ epc # "raised"
        /\ epc = "done" =>
              /\ line_idx = Len(lines)
              /\ invalid_json_count =
                   Cardinality({i \in 1..Len(lines) : ParseFails(lines[i])})

\* the step just taken processed line k as a parsed object
Processed(k) == line_idx = k - 1 /\ line_idx' = k /\ HasKeys(lines[k])

\* the values the claim calls empty: "", {}, null
EmptyKinds == {"empty_str", "empty_map", "null"}

\* C11: a parsed line whose key set equals the expected keys adds to
\* empty_value exactly the number of its fields whose value is empty
\* (empty string, empty mapping, null); a field holding 0 or a non-empty
\* value adds nothing, a line with n empty fields adds n.
C11_EmptyValuePerField ==
    [][\A k \in 1..Len(lines) :
          (Processed(k) /\ KeySet(lines[k]) = expected_keys') =>
              empty_value_count' = empty_value_count
                + Cardinality({p \in lines[k].obj : p[2] \in EmptyKinds})]_vars

C11_Witness ==
    /\ line_idx = 3
    /\ lines[1].obj = {<<"a", "empty_str">>, <<"b", "null">>}
    /\ lines[2].obj = {<<"a", "str">>, <<"b", "zero">>}
    /\ lines[3].obj = {<<"a", "empty_str">>, <<"b", "empty_map">>}
    /\ \A k \in 1..3 : lines[k].kind = "object"
    /\ empty_value_count = 4

\* the parsed lines among the first n lines
ParsedUpTo(n) == {i \in 1..n : lines[i].kind = "object"}

\* the smallest element of a non-empty set of line numbers
First(S) == CHOOSE i \in S : \A j \in S : i <= j

\* C12: expected_keys is the key set of the first successfully parsed line,
\* also when lines that are no JSON precede it, and never changes once
\* set; every later parsed line with another key set adds exactly one to
\* key_mismatch and nothing to empty_value, whatever its values are.
C12_ExpectedKeysFromFirstParsed ==
    /\ [](LET P == ParsedUpTo(line_idx)
          IN  expected_keys = IF P = {} THEN NoKeys
                              ELSE KeySet(lines[First(P)]))
    /\ [][expected_keys # NoKeys => expected_keys' = expected_keys]_vars
    /\ [][\A k \in 1..Len(lines) :
            (Processed(k) /\ expected_keys # NoKeys
               /\ KeySet(lines[k]) # expected_keys) =>
                  /\ missing_key_count' = missing_key_count + 1
                  /\ empty_value_count' = empty_value_count]_vars

C12_Witness ==
    /\ epc = "done"
    /\ Len(lines) = 3
    /\ lines[1].kind = "garbage"
    /\ lines[2] = [kind |-> "object", obj |-> {<<"a", "str">>, <<"b", "str">>}]
    /\ lines[3] = [kind |-> "object", obj |-> {<<"a", "empty_str">>}]
    /\ expected_keys = {"a", "b"}
    /\ missing_key_count = 1
    /\ empty_value_count = 0

\* the call has ended, one way or another
EvalEnded == epc \in {"done", "raised", "empty", "not_found"}

\* C13: for a file with at least one line the pass verdict is reported
\* exactly when invalid_json, key_mismatch and empty_value are all 0, and
\* the quality-issues verdict otherwise; for a file without lines neither
\* verdict is reported.
C13_Verdict ==
    (file_exists /\ EvalEnded) =>
        IF Len(lines) = 0
          THEN verdict = "none"
          ELSE /\ verdict \in {"passed", "issues"}
               /\ verdict = "passed" <=>
                    (invalid_json_count = 0 /\ missing_key_count = 0
                       /\ empty_value_count = 0)

\* C14: after any prefix of the lines, every processed line is in exactly
\* one of three classes (no JSON, key mismatch, value-checked), the two
\* counters equal the sizes of their classes, so invalid_json +
\* key_mismatch never exceeds the lines processed; the line that set the
\* expected keys is no key mismatch; no counter ever decreases.
C14_Accounting ==
    /\ [](LET P == 1..line_idx
              inv == {i \in P : lines[i].kind \in {"garbage", "blank"}}
              obj == ParsedUpTo(line_idx)
              mis == IF obj = {} THEN {}
                     ELSE {i \in obj :
                             KeySet(lines[i]) # KeySet(lines[First(obj)])}
              chk == obj \ mis
          IN  /\ inv \cup mis \cup chk = P
              /\ invalid_json_count = Cardinality(inv)
              /\ missing_key_count = Cardinality(mis)
              /\ invalid_json_count + missing_key_count <= line_idx
              /\ obj # {} => First(obj) \in chk
              /\ chk = {} => empty_value_count = 0)
    /\ [][/\ invalid_json_count' >= invalid_json_count
          /\ missing_key_count' >= missing_key_count
          /\ empty_value_count' >= empty_value_count
          /\ line_idx' >= line_idx]_vars

C14_Witness ==
    /\ epc = "loop"
    /\ line_idx = 3
    /\ invalid_json_count = 1
    /\ missing_key_count = 1
    /\ empty_value_count = 2
    /\ lines[1].kind = "object"

====
